---- MODULE Spec2Model ----
(***************************************************************************)
(* Model of the flattened tree container TreeList of cursive_tree_view     *)
(* (src/src/tree_list/mod.rs).                                             *)
(*                                                                         *)
(* Storage indices are 0-based as in the source; the node stored at index  *)
(* i is items[i + 1].  Option<usize> is modelled as a sequence of length   *)
(* at most one: None is <<>>, Some(n) is <<n>>.                            *)
(*                                                                         *)
(* usize arithmetic: a subtraction that would go below zero, an unwrap of  *)
(* None and an out-of-range slice access abort the call (panic, as the     *)
(* test profile builds it); the operators report it with ok = FALSE and    *)
(* the state machine records it in the variable panicked and stops.        *)
(***************************************************************************)
EXTENDS Integers, Sequences, FiniteSets, TLC

VARIABLES items, height, panicked, last, calls, focus, enabled

vars == <<items, height, panicked, last, calls, focus, enabled>>

\* ---------------------------------------------------------------- bounds
\* Spec: at most MaxLen stored nodes and MaxCalls calls in a behaviour
MaxLen == 4
MaxCalls == 5
\* ChainSpec: the same for the chain-building behaviours
MaxChainLen == 5
MaxChainCalls == 6
\* ValueSpec: the same for the behaviours that tell the payloads apart
MaxValueLen == 4
MaxValueCalls == 4
\* PlainSpec: the same for the behaviours that never collapse a node
MaxPlainLen == 6
MaxPlainCalls == 7
\* ViewSpec: the same for the behaviours of a TreeView
MaxViewLen == 3
MaxViewCalls == 5
\* how far past the last storage index the out-of-range indices lie
MaxBeyond == 2

\* ---------------------------------------------------------- Option<usize>
None == <<>>
Some(n) == <<n>>
is_some(o) == Len(o) = 1
unwrap(o) == o[1]

\* -------------------------------------------------------------- Placement
Placement == {"After", "Before", "FirstChild", "LastChild", "Parent"}

\* --------------------------------------------------------------- TreeNode
\* Mutant of TreeNode: every container starts collapsed, with children or not.
TreeNode_container_collapsed(value, level, is_collapsed, children, h, is_container, collapsed_height) ==
    [value |-> value, level |-> level, is_collapsed |-> is_container,
     children |-> children, height |-> h, is_container |-> is_container,
     collapsed_height |-> collapsed_height]

\* Mutant of TreeNode: a node that starts collapsed gets no cached height.
TreeNode_uncached(value, level, is_collapsed, children, h, is_container, collapsed_height) ==
    [value |-> value, level |-> level, is_collapsed |-> is_collapsed,
     children |-> children, height |-> h, is_container |-> is_container,
     collapsed_height |-> None]

TreeNode(value, level, is_collapsed, children, h, is_container, collapsed_height) ==
    [value |-> value, level |-> level, is_collapsed |-> is_collapsed,
     children |-> children, height |-> h, is_container |-> is_container,
     collapsed_height |-> collapsed_height]

\* the node at storage index i
At(its, i) == its[i + 1]

\* its with the node at storage index i replaced by n
Put(its, i, n) == [its EXCEPT ![i + 1] = n]

\* Mutant of Min: a first argument above the second falls back to 0.
Min_or_zero(a, b) == IF a <= b THEN a ELSE 0

Min(a, b) == IF a < b THEN a ELSE b
Max(a, b) == IF a > b THEN a ELSE b

\* Mutant of get: an index past the end reads the last node.
get_or_last(its, i) ==
    IF Len(its) = 0 THEN None ELSE Some(its[IF i < Len(its) THEN i + 1 ELSE Len(its)].value)

\* TreeList::get: the value stored at index i, None for a bad index
get(its, i) == IF i < Len(its) THEN Some(At(its, i).value) ELSE None

\* TreeList::get_collapsed / get_children: safe reads, default for a bad index
get_collapsed(its, i) == IF i < Len(its) THEN At(its, i).is_collapsed ELSE FALSE
get_children(its, i) == IF i < Len(its) THEN At(its, i).children ELSE 0
is_container_item(its, i) == IF i < Len(its) THEN At(its, i).is_container ELSE FALSE

\* ------------------------------------------------------------ traverse_up
\* The storage indices traverse_up(index, offset, cb) hands to cb, in the
\* order of the calls.  No callback of the source changes a level, so the
\* visited indices do not depend on the callback.
RECURSIVE traverse_up_from(_, _, _, _)
traverse_up_from(its, index, i, level) ==
    IF i > index THEN <<>>
    ELSE IF At(its, index - i).level < level
         THEN <<index - i>> \o traverse_up_from(its, index, i + 1, level - 1)
         ELSE traverse_up_from(its, index, i + 1, level)

\* Mutant of traverse_up: the walk ends at the first node it visits.
traverse_up_first_only(its, index, offset) ==
    LET path == traverse_up_from(its, index, 0, At(its, index).level + offset)
    IN IF path = <<>> THEN <<>> ELSE <<Head(path)>>

traverse_up(its, index, offset) ==
    traverse_up_from(its, index, 0, At(its, index).level + offset)

\* ---------------------------------------------------------- traverse_down
\* Number of nodes traverse_down(index, same_level, cb) visits: the run that
\* starts at index and ends before the first node that neither lies deeper
\* than items[index] nor (while allowed) shares its level.
RECURSIVE traverse_down_from(_, _, _, _, _)
traverse_down_from(its, i, level, same_level, children) ==
    IF i >= Len(its) THEN children
    ELSE IF \/ (same_level \/ children = 0) /\ At(its, i).level = level
            \/ At(its, i).level > level
         THEN traverse_down_from(its, i + 1, level, same_level, children + 1)
         ELSE children

\* Mutant of traverse_down: nodes of the starting level are always taken in.
traverse_down_siblings(its, index, same_level) ==
    traverse_down_from(its, index, At(its, index).level, TRUE, 0)

traverse_down(its, index, same_level) ==
    traverse_down_from(its, index, At(its, index).level, same_level, 0)

\* Mutant of shift_levels: the run starts one node late, the node at index
\* keeps its level.
shift_levels_skip_first(its, index, n, d) ==
    [k \in 1..Len(its) |->
        IF k - 1 > index /\ k - 1 < index + n
        THEN [its[k] EXCEPT !.level = @ + d]
        ELSE its[k]]

\* items with cb = "level += d" applied to the n nodes from storage index index
shift_levels(its, index, n, d) ==
    [k \in 1..Len(its) |->
        IF k - 1 >= index /\ k - 1 < index + n
        THEN [its[k] EXCEPT !.level = @ + d]
        ELSE its[k]]

\* ------------------------------------------------------ item_parent_index
RECURSIVE item_parent_from(_, _, _, _)
item_parent_from(its, index, i, level) ==
    IF i > index THEN None
    ELSE IF At(its, index - i).level < level THEN Some(index - i)
         ELSE item_parent_from(its, index, i + 1, level)

\* Mutant of item_parent_index: the preceding node is taken for the parent.
item_parent_index_previous(its, index) ==
    IF index > 0 THEN Some(index - 1) ELSE None

item_parent_index(its, index) ==
    item_parent_from(its, index, 0, At(its, index).level)

\* ---------------------------------------------------------- set_collapsed
\* The callback of set_collapsed applied to one visited node; inside is the
\* captured inside_collapsed before the call.
set_collapsed_cb(item, collapsed, offset, inside) ==
    LET ins == inside \/ item.is_collapsed
    IN IF item.is_collapsed
       THEN IF ~is_some(item.collapsed_height)
            THEN [item |-> item, inside |-> ins, ok |-> FALSE]
            ELSE LET ch == IF collapsed
                           THEN unwrap(item.collapsed_height) - offset
                           ELSE unwrap(item.collapsed_height) + offset
                 IN [item |-> [item EXCEPT !.collapsed_height = Some(ch)],
                     inside |-> ins, ok |-> ch >= 0]
       ELSE IF ~ins
            THEN LET h == IF collapsed THEN item.height - offset
                          ELSE item.height + offset
                 IN [item |-> [item EXCEPT !.height = h], inside |-> ins, ok |-> h >= 0]
            ELSE [item |-> item, inside |-> ins, ok |-> TRUE]

\* Mutant of set_collapsed_walk: the walk goes on from the node through every
\* node stored before it, ancestor or not.
RECURSIVE set_collapsed_walk_to_front(_, _, _, _, _)
set_collapsed_walk_to_front(its, path, collapsed, offset, inside) ==
    IF path = <<>> THEN [items |-> its, inside |-> inside, ok |-> TRUE]
    ELSE LET r == set_collapsed_cb(At(its, Head(path)), collapsed, offset, inside)
         IN IF ~r.ok THEN [items |-> its, inside |-> r.inside, ok |-> FALSE]
            ELSE set_collapsed_walk_to_front(Put(its, Head(path), r.item),
                     IF Head(path) = 0 THEN <<>> ELSE <<Head(path) - 1>>,
                     collapsed, offset, r.inside)

\* the callback folded over the visited indices, in order
RECURSIVE set_collapsed_walk(_, _, _, _, _)
set_collapsed_walk(its, path, collapsed, offset, inside) ==
    IF path = <<>> THEN [items |-> its, inside |-> inside, ok |-> TRUE]
    ELSE LET r == set_collapsed_cb(At(its, Head(path)), collapsed, offset, inside)
         IN IF ~r.ok THEN [items |-> its, inside |-> r.inside, ok |-> FALSE]
            ELSE set_collapsed_walk(Put(its, Head(path), r.item), Tail(path),
                                    collapsed, offset, r.inside)

\* Mutant of set_collapsed: the node is folded or unfolded again although
\* its flag already has the wanted value.
set_collapsed_unguarded(L, index, collapsed) ==
    IF index >= Len(L.items) THEN [items |-> L.items, height |-> L.height, ok |-> TRUE]
    ELSE LET item == At(L.items, index)
         IN IF (collapsed /\ item.height < 1)
                    \/ (~collapsed /\ ~is_some(item.collapsed_height))
                    \/ (~collapsed /\ is_some(item.collapsed_height)
                                   /\ unwrap(item.collapsed_height) < 1)
            THEN [items |-> L.items, height |-> L.height, ok |-> FALSE]
            ELSE LET offset == IF collapsed THEN item.height - 1
                               ELSE unwrap(item.collapsed_height) - 1
                     item1 == IF collapsed
                              THEN [item EXCEPT !.collapsed_height = Some(item.height)]
                              ELSE [item EXCEPT !.is_collapsed = FALSE,
                                                !.collapsed_height = None]
                     its1 == Put(L.items, index, item1)
                     w == set_collapsed_walk(its1, traverse_up(its1, index, 1),
                                             collapsed, offset, FALSE)
                     its2 == IF collapsed
                             THEN Put(w.items, index,
                                      [At(w.items, index) EXCEPT !.is_collapsed = TRUE])
                             ELSE w.items
                     h2 == IF w.inside THEN L.height
                           ELSE IF collapsed THEN L.height - offset
                                ELSE L.height + offset
                 IN IF ~w.ok \/ h2 < 0
                    THEN [items |-> L.items, height |-> L.height, ok |-> FALSE]
                    ELSE [items |-> its2, height |-> h2, ok |-> TRUE]

\* TreeList::set_collapsed on the list L = [items, height]; the result also
\* carries ok (FALSE: the call panicked).
set_collapsed(L, index, collapsed) ==
    IF index >= Len(L.items) THEN [items |-> L.items, height |-> L.height, ok |-> TRUE]
    ELSE LET item == At(L.items, index)
         IN IF item.is_collapsed = collapsed
            THEN [items |-> L.items, height |-> L.height, ok |-> TRUE]
            ELSE IF (collapsed /\ item.height < 1)
                    \/ (~collapsed /\ ~is_some(item.collapsed_height))
                    \/ (~collapsed /\ is_some(item.collapsed_height)
                                   /\ unwrap(item.collapsed_height) < 1)
            THEN [items |-> L.items, height |-> L.height, ok |-> FALSE]
            ELSE LET offset == IF collapsed THEN item.height - 1
                               ELSE unwrap(item.collapsed_height) - 1
                     item1 == IF collapsed
                              THEN [item EXCEPT !.collapsed_height = Some(item.height)]
                              ELSE [item EXCEPT !.is_collapsed = FALSE,
                                                !.collapsed_height = None]
                     its1 == Put(L.items, index, item1)
                     w == set_collapsed_walk(its1, traverse_up(its1, index, 1),
                                             collapsed, offset, FALSE)
                     its2 == IF collapsed
                             THEN Put(w.items, index,
                                      [At(w.items, index) EXCEPT !.is_collapsed = TRUE])
                             ELSE w.items
                     h2 == IF w.inside THEN L.height
                           ELSE IF collapsed THEN L.height - offset
                                ELSE L.height + offset
                 IN IF ~w.ok \/ h2 < 0
                    THEN [items |-> L.items, height |-> L.height, ok |-> FALSE]
                    ELSE [items |-> its2, height |-> h2, ok |-> TRUE]

\* ------------------------------------------------------ item_index_to_row
\* The loop of item_index_to_row from cursor i with accumulator row; ok is
\* FALSE when row -= children would go below zero.
RECURSIVE item_index_to_row_from(_, _, _, _)
item_index_to_row_from(its, index, i, row) ==
    IF i >= index THEN [row |-> row, ok |-> TRUE]
    ELSE IF get_collapsed(its, i)
         THEN LET children == get_children(its, i)
              IN IF row < children THEN [row |-> row, ok |-> FALSE]
                 ELSE item_index_to_row_from(its, index, i + children + 1, row - children)
         ELSE item_index_to_row_from(its, index, i + 1, row)

item_index_to_row(its, index) == item_index_to_row_from(its, index, 0, index)

\* Mutant of row_to_item_index_from: a collapsed node is skipped together
\* with its descendants before the cursor is compared with the target.
RECURSIVE row_to_item_index_skipping(_, _, _)
row_to_item_index_skipping(its, i, item_index) ==
    IF i >= Len(its) THEN Len(its)
    ELSE IF get_collapsed(its, i)
         THEN row_to_item_index_skipping(its, i + get_children(its, i) + 1,
                                         item_index + get_children(its, i))
    ELSE IF item_index = i THEN i
         ELSE row_to_item_index_skipping(its, i + 1, item_index)

\* ------------------------------------------------------ row_to_item_index
RECURSIVE row_to_item_index_from(_, _, _)
row_to_item_index_from(its, i, item_index) ==
    IF i >= Len(its) THEN Len(its)
    ELSE IF item_index = i THEN i
    ELSE IF get_collapsed(its, i)
         THEN row_to_item_index_from(its, i + get_children(its, i) + 1,
                                     item_index + get_children(its, i))
         ELSE row_to_item_index_from(its, i + 1, item_index)

row_to_item_index(its, row) == row_to_item_index_from(its, 0, row)

\* ----------------------------------------------------------------- remove
\* Set of the indices in a path
PathSet(path) == {path[k] : k \in 1..Len(path)}

\* the callback "children -= dc; height -= dh" applied to the nodes of path
reduce_ok(its, path, dc, dh) ==
    \A k \in PathSet(path) : At(its, k).children >= dc /\ At(its, k).height >= dh

\* Mutant of reduce: the callback leaves the heights alone.
reduce_children_only(its, path, dc, dh) ==
    [k \in 1..Len(its) |->
        IF (k - 1) \in PathSet(path)
        THEN [its[k] EXCEPT !.children = @ - dc]
        ELSE its[k]]

reduce(its, path, dc, dh) ==
    [k \in 1..Len(its) |->
        IF (k - 1) \in PathSet(path)
        THEN [its[k] EXCEPT !.children = @ - dc, !.height = @ - dh]
        ELSE its[k]]

\* Vec::remove(index) and Vec::drain(from..to)
vec_remove(its, index) == [k \in 1..(Len(its) - 1) |-> IF k - 1 < index THEN its[k] ELSE its[k + 1]]
vec_drain(its, from, to) ==
    [k \in 1..(Len(its) - (to - from)) |-> IF k - 1 < from THEN its[k] ELSE its[k + (to - from)]]
\* Mutant of drained_values: every drained slot yields the first value.
drained_values_first_repeated(its, from, to) == [k \in 1..(to - from) |-> its[from + 1].value]

drained_values(its, from, to) == [k \in 1..(to - from) |-> its[from + k].value]

Failed(L) == [items |-> L.items, height |-> L.height, ok |-> FALSE, ret |-> None]

remove(L, index) ==
    IF index >= Len(L.items)
    THEN [items |-> L.items, height |-> L.height, ok |-> TRUE, ret |-> None]
    ELSE LET c == set_collapsed(L, index, FALSE)
             path == traverse_up(c.items, index, 0)
             its1 == reduce(c.items, path, 1, 1)
             removed_item == At(its1, index)
             its2 == vec_remove(its1, index)
             n == IF removed_item.children > 0 /\ index < Len(its2)
                  THEN traverse_down(its2, index, TRUE) ELSE 0
             its3 == shift_levels(its2, index, n, -1)
         IN IF ~c.ok THEN Failed(L)
            ELSE IF ~reduce_ok(c.items, path, 1, 1) THEN Failed(L)
            ELSE IF removed_item.children > 0 /\ index >= Len(its2) THEN Failed(L)
            ELSE IF \E k \in 1..Len(its3) : its3[k].level < 0 THEN Failed(L)
            ELSE IF c.height < 1 THEN Failed(L)
            ELSE [items |-> its3, height |-> c.height - 1, ok |-> TRUE,
                  ret |-> Some(removed_item.value)]

\* -------------------------------------------------------- remove_children
remove_children(L, index) ==
    IF index >= Len(L.items)
    THEN [items |-> L.items, height |-> L.height, ok |-> TRUE, ret |-> None]
    ELSE LET item == At(L.items, index)
             item_height == item.height - 1
             item_children == item.children
             was_collapsed == item.is_collapsed
             c == set_collapsed(L, index, FALSE)
             path == traverse_up(c.items, index, 1)
             its1 == reduce(c.items, path, item_children, item_height)
             h1 == c.height - item_height
             its2 == vec_drain(its1, index + 1, index + 1 + item_children)
             d == set_collapsed([items |-> its2, height |-> h1], index, was_collapsed)
         IN IF item.height < 1 THEN Failed(L)
            ELSE IF ~c.ok THEN Failed(L)
            ELSE IF ~reduce_ok(c.items, path, item_children, item_height) THEN Failed(L)
            ELSE IF h1 < 0 THEN Failed(L)
            ELSE IF index + 1 + item_children > Len(its1) THEN Failed(L)
            ELSE IF ~d.ok THEN Failed(L)
            ELSE [items |-> d.items, height |-> d.height, ok |-> TRUE,
                  ret |-> Some(drained_values(its1, index + 1, index + 1 + item_children))]

\* --------------------------------------------------- remove_with_children
remove_with_children(L, index) ==
    IF index >= Len(L.items)
    THEN [items |-> L.items, height |-> L.height, ok |-> TRUE, ret |-> None]
    ELSE LET c == set_collapsed(L, index, FALSE)
             item_height == At(c.items, index).height
             item_children == At(c.items, index).children
             path == traverse_up(c.items, index, 0)
             its1 == reduce(c.items, path, item_children + 1, item_height)
             item == At(its1, index)
             its2 == vec_remove(its1, index)
             h2 == c.height - item.height
             its3 == vec_drain(its2, index, index + item_children)
         IN IF ~c.ok THEN Failed(L)
            ELSE IF ~reduce_ok(c.items, path, item_children + 1, item_height) THEN Failed(L)
            ELSE IF h2 < 0 THEN Failed(L)
            ELSE IF index + item_children > Len(its2) THEN Failed(L)
            ELSE [items |-> its3, height |-> h2, ok |-> TRUE,
                  ret |-> Some(<<item.value>> \o drained_values(its2, index, index + item_children))]

\* ----------------------------------------------------------------- insert
\* Mutant of insert_cb: the walk stops counting at the first collapsed
\* ancestor, the ancestors above it do not gain the descendant.
insert_cb_hidden_uncounted(item, level, inside) ==
    LET item1 == [item EXCEPT !.is_container = TRUE, !.children = @ + 1]
    IN IF item.level < level /\ ~inside
       THEN IF item.is_collapsed
            THEN [item |-> [item1 EXCEPT !.collapsed_height =
                               IF is_some(@) THEN Some(unwrap(@) + 1) ELSE @],
                  inside |-> TRUE, ok |-> is_some(item.collapsed_height)]
            ELSE [item |-> [item1 EXCEPT !.height = @ + 1], inside |-> inside, ok |-> TRUE]
       ELSE [item |-> item, inside |-> inside, ok |-> TRUE]

\* Mutant of insert_cb: inside_collapsed is never set, a collapsed ancestor
\* only has its cached height raised.
insert_cb_unlatched(item, level, inside) ==
    LET item1 == [item EXCEPT !.is_container = TRUE, !.children = @ + 1]
    IN IF item.level < level
       THEN IF item.is_collapsed
            THEN [item |-> [item1 EXCEPT !.collapsed_height =
                               IF is_some(@) THEN Some(unwrap(@) + 1) ELSE @],
                  inside |-> inside, ok |-> is_some(item.collapsed_height)]
            ELSE [item |-> [item1 EXCEPT !.height = @ + 1], inside |-> inside, ok |-> TRUE]
       ELSE [item |-> item, inside |-> inside, ok |-> TRUE]

\* Mutant of insert_cb: every collapsed ancestor has its cached height
\* raised, not only the nearest one.
insert_cb_every_collapsed(item, level, inside) ==
    LET item1 == [item EXCEPT !.is_container = TRUE, !.children = @ + 1]
    IN IF item.level < level
       THEN IF item.is_collapsed
            THEN [item |-> [item1 EXCEPT !.collapsed_height =
                               IF is_some(@) THEN Some(unwrap(@) + 1) ELSE @],
                  inside |-> TRUE, ok |-> is_some(item.collapsed_height)]
            ELSE IF ~inside
                 THEN [item |-> [item1 EXCEPT !.height = @ + 1],
                       inside |-> inside, ok |-> TRUE]
                 ELSE [item |-> item1, inside |-> inside, ok |-> TRUE]
       ELSE [item |-> item, inside |-> inside, ok |-> TRUE]

\* The callback of insert applied to one visited node; level is the level of
\* the new node, inside the captured inside_collapsed before the call.
insert_cb(item, level, inside) ==
    LET item1 == [item EXCEPT !.is_container = TRUE, !.children = @ + 1]
    IN IF item.level < level
       THEN IF ~inside
            THEN IF item.is_collapsed
                 THEN IF ~is_some(item.collapsed_height)
                      THEN [item |-> item, inside |-> TRUE, ok |-> FALSE]
                      ELSE [item |-> [item1 EXCEPT !.collapsed_height =
                                         Some(unwrap(item.collapsed_height) + 1)],
                            inside |-> TRUE, ok |-> TRUE]
                 ELSE [item |-> [item1 EXCEPT !.height = @ + 1],
                       inside |-> inside, ok |-> TRUE]
            ELSE [item |-> item1, inside |-> inside, ok |-> TRUE]
       ELSE [item |-> item, inside |-> inside, ok |-> TRUE]

\* the callback folded over the visited indices, in order
RECURSIVE insert_walk(_, _, _, _)
insert_walk(its, path, level, inside) ==
    IF path = <<>> THEN [items |-> its, inside |-> inside, ok |-> TRUE]
    ELSE LET r == insert_cb(At(its, Head(path)), level, inside)
         IN IF ~r.ok THEN [items |-> its, inside |-> r.inside, ok |-> FALSE]
            ELSE insert_walk(Put(its, Head(path), r.item), Tail(path), level, r.inside)

vec_insert(its, index, n) ==
    [k \in 1..(Len(its) + 1) |->
        IF k - 1 < index THEN its[k] ELSE IF k - 1 = index THEN n ELSE its[k - 1]]

\* (parent_index, item_index, level, move_children) of insert
insert_target(its, placement, index) ==
    IF Len(its) = 0
    THEN [parent_index |-> None, item_index |-> 0, level |-> 0, move_children |-> FALSE]
    ELSE CASE placement = "After" ->
                 LET p == item_parent_index(its, index)
                 IN IF is_some(p)
                    THEN [parent_index |-> p,
                          item_index |-> index + 1 + At(its, index).children,
                          level |-> At(its, unwrap(p)).level + 1, move_children |-> FALSE]
                    ELSE [parent_index |-> None,
                          item_index |-> index + 1 + At(its, index).children,
                          level |-> At(its, index).level, move_children |-> FALSE]
           [] placement = "Before" ->
                 LET p == item_parent_index(its, index)
                 IN IF is_some(p)
                    THEN [parent_index |-> p, item_index |-> index,
                          level |-> At(its, unwrap(p)).level + 1, move_children |-> FALSE]
                    ELSE [parent_index |-> None, item_index |-> index,
                          level |-> 0, move_children |-> FALSE]
           [] placement = "FirstChild" ->
                 [parent_index |-> Some(index), item_index |-> index + 1,
                  level |-> At(its, index).level + 1, move_children |-> FALSE]
           [] placement = "LastChild" ->
                 [parent_index |-> Some(index),
                  item_index |-> index + 1 + At(its, index).children,
                  level |-> At(its, index).level + 1, move_children |-> FALSE]
           [] placement = "Parent" ->
                 [parent_index |-> IF index > 0 THEN Some(index - 1) ELSE None,
                  item_index |-> index, level |-> At(its, index).level,
                  move_children |-> TRUE]

insert(L, placement, index0, value, is_container) ==
    LET index == Min(index0, Max(Len(L.items) - 1, 0))
        t == insert_target(L.items, placement, index)
        w == IF is_some(t.parent_index)
             THEN insert_walk(L.items, traverse_up(L.items, unwrap(t.parent_index), 1),
                              t.level, FALSE)
             ELSE [items |-> L.items, inside |-> FALSE, ok |-> TRUE]
        children == IF t.move_children THEN traverse_down(w.items, t.item_index, FALSE) ELSE 0
        its1 == IF t.move_children THEN shift_levels(w.items, t.item_index, children, 1)
                ELSE w.items
        initially_collapsed == is_container /\ children = 0
        its2 == vec_insert(its1, t.item_index,
                    TreeNode(value, t.level, initially_collapsed, children, 1 + children,
                             is_container,
                             IF initially_collapsed THEN Some(1) ELSE None))
        r == item_index_to_row(its2, t.item_index)
    IN IF ~w.ok \/ t.item_index > Len(L.items)
       THEN [items |-> L.items, height |-> L.height, ok |-> FALSE, ret |-> None,
             item_index |-> t.item_index]
       ELSE IF w.inside
       THEN [items |-> its2, height |-> L.height, ok |-> TRUE, ret |-> None,
             item_index |-> t.item_index]
       ELSE IF ~r.ok
       THEN [items |-> L.items, height |-> L.height, ok |-> FALSE, ret |-> None,
             item_index |-> t.item_index]
       ELSE [items |-> its2, height |-> L.height + 1, ok |-> TRUE, ret |-> Some(r.row),
             item_index |-> t.item_index]

insert_item(L, placement, index, value) == insert(L, placement, index, value, FALSE)
insert_container_item(L, placement, index, value) == insert(L, placement, index, value, TRUE)

\* ------------------------------------------------------ clear / take_items
clear(L) == [items |-> <<>>, height |-> 0, ok |-> TRUE, ret |-> None]
take_items(L) ==
    [items |-> <<>>, height |-> 0, ok |-> TRUE,
     ret |-> Some([k \in 1..Len(L.items) |-> L.items[k].value])]

\* ============================================================ state machine
List == [items |-> items, height |-> height]

Call(op, placement, index, flag) ==
    [op |-> op, placement |-> placement, index |-> index, flag |-> flag]

\* after TreeList::new()
Init ==
    /\ items = <<>>
    /\ height = 0
    /\ panicked = FALSE
    /\ last = [call |-> Call("new", "", 0, FALSE), ret |-> None]
    /\ calls = 0
    /\ focus = 0
    /\ enabled = TRUE

\* the payload the caller hands to an insertion (opaque to the list)
Payload == "v"

\* the call returned r (or panicked): the new state
Apply(call, r) ==
    /\ calls' = calls + 1
    /\ items' = r.items
    /\ height' = r.height
    /\ panicked' = ~r.ok
    /\ last' = [call |-> call, ret |-> r.ret]
    /\ focus' = focus
    /\ enabled' = enabled

InsertItem(placement, index, value) ==
    /\ ~panicked
    /\ LET r == insert_item(List, placement, index, value)
       IN Apply(Call("insert", placement, index, FALSE), r)

InsertContainerItem(placement, index, value) ==
    /\ ~panicked
    /\ LET r == insert_container_item(List, placement, index, value)
       IN Apply(Call("insert", placement, index, TRUE), r)

SetCollapsed(index, collapsed) ==
    /\ ~panicked
    /\ LET r == set_collapsed(List, index, collapsed)
       IN Apply(Call("set_collapsed", "", index, collapsed),
                [items |-> r.items, height |-> r.height, ok |-> r.ok, ret |-> None])

Remove(index) ==
    /\ ~panicked
    /\ Apply(Call("remove", "", index, FALSE), remove(List, index))

RemoveChildren(index) ==
    /\ ~panicked
    /\ Apply(Call("remove_children", "", index, FALSE), remove_children(List, index))

RemoveWithChildren(index) ==
    /\ ~panicked
    /\ Apply(Call("remove_with_children", "", index, FALSE),
             remove_with_children(List, index))

Clear ==
    /\ ~panicked
    /\ Apply(Call("clear", "", 0, FALSE), clear(List))

TakeItems ==
    /\ ~panicked
    /\ Apply(Call("take_items", "", 0, FALSE), take_items(List))

\* storage indices a caller passes: every valid one and one past the end
Indices == 0..Len(items)

\* the bounds of a behaviour: fewer than n calls made, fewer than n nodes stored
CanCall(n) == calls < n
CanGrow(n) == Len(items) < n

Next ==
    \/ \E p \in Placement, i \in Indices :
          CanCall(MaxCalls) /\ CanGrow(MaxLen) /\ InsertItem(p, i, Payload)
    \/ \E p \in Placement, i \in Indices :
          CanCall(MaxCalls) /\ CanGrow(MaxLen) /\ InsertContainerItem(p, i, Payload)
    \/ \E i \in Indices, c \in BOOLEAN : CanCall(MaxCalls) /\ SetCollapsed(i, c)
    \/ \E i \in Indices : CanCall(MaxCalls) /\ Remove(i)
    \/ \E i \in Indices : CanCall(MaxCalls) /\ RemoveChildren(i)
    \/ \E i \in Indices : CanCall(MaxCalls) /\ RemoveWithChildren(i)
    \/ CanCall(MaxCalls) /\ Clear
    \/ CanCall(MaxCalls) /\ TakeItems

Spec == Init /\ [][Next]_vars

\* A caller that only appends children and folds: insert_item with
\* Placement::LastChild and set_collapsed, at any index.
NextChain ==
    \/ \E i \in Indices :
          CanCall(MaxChainCalls) /\ CanGrow(MaxChainLen) /\ InsertItem("LastChild", i, Payload)
    \/ \E i \in Indices, c \in BOOLEAN : CanCall(MaxChainCalls) /\ SetCollapsed(i, c)

ChainSpec == Init /\ [][NextChain]_vars

\* A caller that hands every insertion a payload of its own (the number of
\* the call), so that the stored values tell the nodes apart.
NextValue ==
    \/ \E p \in Placement, i \in Indices :
          CanCall(MaxValueCalls) /\ CanGrow(MaxValueLen) /\ InsertItem(p, i, calls)
    \/ \E p \in Placement, i \in Indices :
          CanCall(MaxValueCalls) /\ CanGrow(MaxValueLen) /\ InsertContainerItem(p, i, calls)
    \/ \E i \in Indices, c \in BOOLEAN : CanCall(MaxValueCalls) /\ SetCollapsed(i, c)
    \/ \E i \in Indices : CanCall(MaxValueCalls) /\ Remove(i)
    \/ \E i \in Indices : CanCall(MaxValueCalls) /\ RemoveChildren(i)
    \/ \E i \in Indices : CanCall(MaxValueCalls) /\ RemoveWithChildren(i)
    \/ CanCall(MaxValueCalls) /\ Clear
    \/ CanCall(MaxValueCalls) /\ TakeItems

ValueSpec == Init /\ [][NextValue]_vars

\* A caller that never collapses a node: insert_item with any placement and
\* the three removals, at any index.
NextPlain ==
    \/ \E p \in Placement, i \in Indices :
          CanCall(MaxPlainCalls) /\ CanGrow(MaxPlainLen) /\ InsertItem(p, i, Payload)
    \/ \E i \in Indices : CanCall(MaxPlainCalls) /\ Remove(i)
    \/ \E i \in Indices : CanCall(MaxPlainCalls) /\ RemoveChildren(i)
    \/ \E i \in Indices : CanCall(MaxPlainCalls) /\ RemoveWithChildren(i)

PlainSpec == Init /\ [][NextPlain]_vars

\* ---------------------------------------------------------------- TreeView
\* A TreeView owns the list and a focus row; its methods take visual rows.

\* cmp::min(self.focus, self.list.height() - 1) on usize: ok is FALSE when
\* the subtraction underflows (height 0)
clamp_focus(f, h) == [ok |-> h >= 1, focus |-> IF h >= 1 THEN Min(f, h - 1) ELSE f]

\* TreeView::borrow_item: the value at the row, None if there is no such row
borrow_item(its, row) == get(its, row_to_item_index(its, row))

\* a view method that only forwards to the list returned r (or panicked)
ViewApply(call, r) ==
    /\ calls' = calls + 1
    /\ items' = r.items
    /\ height' = r.height
    /\ panicked' = ~r.ok
    /\ last' = [call |-> call, ret |-> r.ret]
    /\ focus' = focus
    /\ enabled' = enabled

\* a removing view method: the list call returned r (or panicked), then the
\* focus is clamped to the new height
ViewRemoved(call, r) ==
    LET c == clamp_focus(focus, r.height)
    IN /\ calls' = calls + 1
       /\ items' = r.items
       /\ height' = r.height
       /\ panicked' = ~(r.ok /\ c.ok)
       /\ last' = [call |-> call, ret |-> IF r.ok /\ c.ok THEN r.ret ELSE None]
       /\ focus' = IF r.ok THEN c.focus ELSE focus
       /\ enabled' = enabled

ViewInsertItem(placement, row, value) ==
    /\ ~panicked
    /\ ViewApply(Call("view_insert", placement, row, FALSE),
                 insert_item(List, placement, row_to_item_index(items, row), value))

ViewInsertContainerItem(placement, row, value) ==
    /\ ~panicked
    /\ ViewApply(Call("view_insert", placement, row, TRUE),
                 insert_container_item(List, placement, row_to_item_index(items, row), value))

ViewRemoveItem(row) ==
    /\ ~panicked
    /\ ViewRemoved(Call("view_remove_item", "", row, FALSE),
                   remove_with_children(List, row_to_item_index(items, row)))

ViewRemoveChildren(row) ==
    /\ ~panicked
    /\ ViewRemoved(Call("view_remove_children", "", row, FALSE),
                   remove_children(List, row_to_item_index(items, row)))

ViewExtractItem(row) ==
    /\ ~panicked
    /\ ViewRemoved(Call("view_extract_item", "", row, FALSE),
                   remove(List, row_to_item_index(items, row)))

ViewSetCollapsed(row, collapsed) ==
    /\ ~panicked
    /\ LET r == set_collapsed(List, row_to_item_index(items, row), collapsed)
       IN ViewApply(Call("view_set_collapsed", "", row, collapsed),
                    [items |-> r.items, height |-> r.height, ok |-> r.ok, ret |-> None])

SetSelectedRow(row) ==
    /\ ~panicked
    /\ calls' = calls + 1
    /\ focus' = row
    /\ last' = [call |-> Call("set_selected_row", "", row, FALSE), ret |-> None]
    /\ UNCHANGED <<items, height, panicked, enabled>>

\* visual rows a caller passes: every row below the height and one past it
Rows == 0..height

NextView ==
    \/ \E p \in Placement, r \in Rows :
          CanCall(MaxViewCalls) /\ CanGrow(MaxViewLen) /\ ViewInsertItem(p, r, Payload)
    \/ \E p \in Placement, r \in Rows :
          CanCall(MaxViewCalls) /\ CanGrow(MaxViewLen) /\ ViewInsertContainerItem(p, r, Payload)
    \/ \E r \in Rows : CanCall(MaxViewCalls) /\ ViewRemoveItem(r)
    \/ \E r \in Rows : CanCall(MaxViewCalls) /\ ViewRemoveChildren(r)
    \/ \E r \in Rows : CanCall(MaxViewCalls) /\ ViewExtractItem(r)
    \/ \E r \in Rows, c \in BOOLEAN : CanCall(MaxViewCalls) /\ ViewSetCollapsed(r, c)
    \/ \E r \in Rows : CanCall(MaxViewCalls) /\ SetSelectedRow(r)

ViewSpec == Init /\ [][NextView]_vars

\* ------------------------------------------------------------ key events
MaxKeyLen == 3
MaxKeyCalls == 5

\* TreeView::focus_up: self.focus -= cmp::min(self.focus, n)
focus_up(f, n) == f - Min(f, n)

\* TreeView::focus_down: cmp::min(self.focus + n, self.list.height() - 1) on
\* usize; ok is FALSE when the height is 0 and the subtraction goes below zero
focus_down(f, n, h) ==
    [ok |-> h >= 1, focus |-> IF h >= 1 THEN Min(f + n, h - 1) ELSE f]

\* the key events on_event tells apart, and any other event
Keys == {"Up", "Down", "PageUp", "PageDown", "Home", "End", "Enter", "Other"}

\* the number of rows PageUp and PageDown move the focus by
PageRows == 10

\* TreeView::on_event on the list L with the focus f; en is the enabled flag,
\* has_on_collapse and has_on_submit tell whether the callbacks are set.
\* The result carries the list, the focus, ok (FALSE: the call panicked) and
\* ret, the EventResult ("Consumed" or "Ignored").
on_event(L, f, en, key, has_on_collapse, has_on_submit) ==
    LET same == [items |-> L.items, height |-> L.height, focus |-> f,
                 ok |-> TRUE, ret |-> "Ignored"]
        failed == [same EXCEPT !.ok = FALSE]
        moved(g) == [same EXCEPT !.focus = g,
                                 !.ret = IF L.items # <<>> /\ g # f
                                         THEN "Consumed" ELSE "Ignored"]
    IN IF ~en THEN same
       ELSE CASE key = "Up" -> IF f > 0 THEN moved(focus_up(f, 1)) ELSE same
              [] key = "Down" ->
                    IF f + 1 < L.height
                    THEN LET d == focus_down(f, 1, L.height)
                         IN IF d.ok THEN moved(d.focus) ELSE failed
                    ELSE same
              [] key = "PageUp" -> moved(focus_up(f, PageRows))
              [] key = "PageDown" ->
                    LET d == focus_down(f, PageRows, L.height)
                    IN IF d.ok THEN moved(d.focus) ELSE failed
              [] key = "Home" -> moved(0)
              [] key = "End" -> IF L.height >= 1 THEN moved(L.height - 1) ELSE failed
              [] key = "Enter" ->
                    IF L.items = <<>> THEN same
                    ELSE LET index == row_to_item_index(L.items, f)
                         IN IF is_container_item(L.items, index)
                            THEN LET r == set_collapsed(L, index,
                                              ~get_collapsed(L.items, index))
                                 IN IF ~r.ok THEN failed
                                    ELSE [items |-> r.items, height |-> r.height,
                                          focus |-> f, ok |-> TRUE,
                                          ret |-> IF has_on_collapse
                                                  THEN "Consumed" ELSE "Ignored"]
                            ELSE [same EXCEPT !.ret = IF has_on_submit
                                                      THEN "Consumed" ELSE "Ignored"]
              [] OTHER -> same

\* the view handles one event; the key travels in the placement field of
\* the recorded call
OnEvent(key, has_on_collapse, has_on_submit) ==
    /\ ~panicked
    /\ LET r == on_event(List, focus, enabled, key, has_on_collapse, has_on_submit)
       IN /\ calls' = calls + 1
          /\ items' = r.items
          /\ height' = r.height
          /\ focus' = r.focus
          /\ panicked' = ~r.ok
          /\ last' = [call |-> Call("on_event", key, 0, FALSE),
                      ret |-> IF r.ok THEN Some(r.ret) ELSE None]
          /\ enabled' = enabled

CollapseItem(row) ==
    /\ ~panicked
    /\ LET r == set_collapsed(List, row_to_item_index(items, row), TRUE)
       IN ViewApply(Call("collapse_item", "", row, TRUE),
                    [items |-> r.items, height |-> r.height, ok |-> r.ok, ret |-> None])

ExpandItem(row) ==
    /\ ~panicked
    /\ LET r == set_collapsed(List, row_to_item_index(items, row), FALSE)
       IN ViewApply(Call("expand_item", "", row, FALSE),
                    [items |-> r.items, height |-> r.height, ok |-> r.ok, ret |-> None])

SetEnabled(e) ==
    /\ ~panicked
    /\ calls' = calls + 1
    /\ enabled' = e
    /\ last' = [call |-> Call("set_enabled", "", 0, e), ret |-> None]
    /\ UNCHANGED <<items, height, panicked, focus>>

\* the visual rows that exist
ExistingRows == 0..(height - 1)

\* A view that is filled by insertions and then driven by key events and by
\* collapsing and expanding existing rows.
NextKey ==
    \/ \E p \in Placement, r \in Rows :
          CanCall(MaxKeyCalls) /\ CanGrow(MaxKeyLen) /\ ViewInsertItem(p, r, Payload)
    \/ \E p \in Placement, r \in Rows :
          CanCall(MaxKeyCalls) /\ CanGrow(MaxKeyLen) /\ ViewInsertContainerItem(p, r, Payload)
    \/ \E k \in Keys, c, s \in BOOLEAN : CanCall(MaxKeyCalls) /\ OnEvent(k, c, s)
    \/ \E r \in ExistingRows : CanCall(MaxKeyCalls) /\ CollapseItem(r)
    \/ \E r \in ExistingRows : CanCall(MaxKeyCalls) /\ ExpandItem(r)
    \/ \E r \in ExistingRows, c \in BOOLEAN : CanCall(MaxKeyCalls) /\ ViewSetCollapsed(r, c)
    \/ \E e \in BOOLEAN : CanCall(MaxKeyCalls) /\ SetEnabled(e)

KeySpec == Init /\ [][NextKey]_vars


\* ================================================================== claims
\* The tree a level sequence denotes, read off the levels alone.

\* k lies in the subtree below i: every node from i + 1 to k is deeper than i
IsDescendant(its, i, k) ==
    /\ i < k
    /\ k < Len(its)
    /\ \A m \in (i + 1)..k : At(its, m).level > At(its, i).level

Descendants(its, i) == {k \in 0..(Len(its) - 1) : IsDescendant(its, i, k)}
Ancestors(its, i) == {j \in 0..(Len(its) - 1) : IsDescendant(its, j, i)}
DirectChildren(its, i) ==
    {k \in Descendants(its, i) : At(its, k).level = At(its, i).level + 1}

\* every ancestor of i is expanded
Visible(its, i) == \A j \in Ancestors(its, i) : ~At(its, j).is_collapsed
VisibleIndices(its) == {i \in 0..(Len(its) - 1) : Visible(its, i)}

RECURSIVE SumHeights(_, _)
SumHeights(its, S) ==
    IF S = {} THEN 0
    ELSE LET k == CHOOSE x \in S : TRUE
         IN At(its, k).height + SumHeights(its, S \ {k})

NodeIndices == 0..(Len(items) - 1)

\* C1: after every operation the list height is the number of storage
\* indices all of whose ancestors are expanded.
C1_HeightCountsVisible == height = Cardinality(VisibleIndices(items))

\* C2: children of every node is the number of entries that follow it up to
\* the next entry whose level is not greater, collapsed or not.
C2_ChildrenIsSubtreeSize ==
    \A i \in NodeIndices : At(items, i).children = Cardinality(Descendants(items, i))

\* a removal below a collapsed node left it with hidden descendants
C2_Witness ==
    /\ last.call.op \in {"remove", "remove_children", "remove_with_children"}
    /\ is_some(last.ret)
    /\ ~panicked
    /\ \E i \in NodeIndices :
          /\ At(items, i).is_collapsed
          /\ At(items, i).children >= 2
          /\ last.call.index > i

\* C3: every expanded node has height 1 + the sum of the heights of its
\* direct children.
C3_ExpandedHeight ==
    \A i \in NodeIndices :
        ~At(items, i).is_collapsed
            => At(items, i).height = 1 + SumHeights(items, DirectChildren(items, i))

\* C4: every collapsed node has height 1 and caches in collapsed_height the
\* height it would have if expanded now.
C4_CollapsedHeight ==
    \A i \in NodeIndices :
        At(items, i).is_collapsed
            => /\ At(items, i).height = 1
               /\ At(items, i).collapsed_height
                      = Some(1 + SumHeights(items, DirectChildren(items, i)))

\* C5: the levels form a pre-order: the first node has level 0 and no node
\* lies more than one level below its predecessor.
C5_LevelsArePreorder ==
    /\ Len(items) > 0 => At(items, 0).level = 0
    /\ \A i \in 1..(Len(items) - 1) :
          /\ At(items, i).level >= 0
          /\ At(items, i).level <= At(items, i - 1).level + 1
          \* the nearest preceding node of a lower level lies exactly one level up
          /\ At(items, i).level > 0
                => \E j \in 0..(i - 1) :
                      /\ At(items, j).level = At(items, i).level - 1
                      /\ \A m \in (j + 1)..(i - 1) : At(items, m).level >= At(items, i).level

\* a Placement::Parent insertion below the first node moved a subtree of two
\* or more nodes one level down
C5_Witness ==
    /\ last.call.op = "insert"
    /\ last.call.placement = "Parent"
    /\ last.call.index >= 1
    /\ last.call.index < Len(items)
    /\ At(items, last.call.index).children >= 2
    /\ ~panicked

\* the fields of a node that set_collapsed may touch, and its children count
Counters(n) == <<n.height, n.collapsed_height, n.children, n.is_collapsed>>

\* set_collapsed(i, true) followed by set_collapsed(i, false) on the list L
\* completes and restores the list height and the counters of i and of its
\* ancestors
RoundTrips(L, i) ==
    LET a == set_collapsed(L, i, TRUE)
        b == set_collapsed([items |-> a.items, height |-> a.height], i, FALSE)
    IN /\ a.ok
       /\ b.ok
       /\ b.height = L.height
       /\ \A j \in Ancestors(L.items, i) \cup {i} :
             Counters(At(b.items, j)) = Counters(At(L.items, j))

\* C6: collapsing and then expanding any expanded node completes and restores
\* the list height and the height, collapsed_height, children and collapsed
\* flag of the node and of every ancestor.
C6_CollapseExpandRoundTrip ==
    \A i \in NodeIndices : ~At(items, i).is_collapsed => RoundTrips(List, i)

\* C7: item_index_to_row(row_to_item_index(r)) = r for every row r < height.
C7_RowIndexRoundTrip ==
    \A r \in 0..(height - 1) :
        LET back == item_index_to_row(items, row_to_item_index(items, r))
        IN back.ok /\ back.row = r

\* C8: row_to_item_index(r), r < height, is the storage index of the (r+1)-th
\* node whose ancestors are all expanded.
C8_RowIsNthVisible ==
    \A r \in 0..(height - 1) :
        LET idx == row_to_item_index(items, r)
        IN /\ idx \in VisibleIndices(items)
           /\ Cardinality({v \in VisibleIndices(items) : v < idx}) = r

\* the list of test_collapse_multiple: five LastChild insertions, each under
\* the node inserted before it
StateOf(r) == [items |-> r.items, height |-> r.height]
Chain1 == StateOf(insert_item([items |-> <<>>, height |-> 0], "LastChild", 0, Payload))
Chain2 == StateOf(insert_item(Chain1, "LastChild", 0, Payload))
Chain3 == StateOf(insert_item(Chain2, "LastChild", 1, Payload))
Chain4 == StateOf(insert_item(Chain3, "LastChild", 2, Payload))
Chain5 == StateOf(insert_item(Chain4, "LastChild", 3, Payload))

\* the step collapses the 2nd node of the 5-node chain
CollapsesSecondOfChain5 ==
    /\ List = Chain5
    /\ last'.call = Call("set_collapsed", "", 1, TRUE)

\* C9 (as claimed): after collapsing the 2nd node of the 5-node chain the list
\* height is 2 and row 1 maps to storage index 4.
C9_ChainRowOneIsLastSlot ==
    [][CollapsesSecondOfChain5
         => height' = 2 /\ row_to_item_index(items', 1) = 4]_vars

\* C9 (amended): after collapsing the 2nd node (children = 3) of the 5-node
\* chain the list height is 2 and row 1 maps to storage index 1, the collapsed
\* node itself; every later row maps to len.
C9_ChainRowOneIsCollapsedNode ==
    [][CollapsesSecondOfChain5
         => /\ At(items, 1).children = 3
            /\ ~panicked'
            /\ height' = 2
            /\ row_to_item_index(items', 1) = 1
            /\ row_to_item_index(items', 2) = Len(items')]_vars

C9_Witness ==
    /\ last.call = Call("set_collapsed", "", 1, TRUE)
    /\ calls = Len(items) + 1
    /\ [k \in 1..Len(items) |-> items[k].level] = [k \in 1..Len(Chain5.items) |-> k - 1]
    /\ [k \in 1..Len(items) |-> items[k].is_collapsed]
           = [k \in 1..Len(Chain5.items) |-> k = 2]
    /\ ~panicked

\* the storage index insert(placement, index, ..) stores the new node at
StoredAt(placement, index) ==
    insert_target(items, placement, Min(index, Max(Len(items) - 1, 0))).item_index

\* C10: every insert adds exactly one node; it returns None exactly when an
\* ancestor of the new node is collapsed, and then the list height is
\* unchanged; otherwise it returns Some(row) and the list height grows by 1.
C10_InsertResult ==
    [][last'.call.op = "insert"
         => /\ ~panicked'
            /\ Len(items') = Len(items) + 1
            /\ IF \E j \in Ancestors(items', StoredAt(last'.call.placement, last'.call.index)) :
                      At(items', j).is_collapsed
               THEN last'.ret = None /\ height' = height
               ELSE is_some(last'.ret) /\ height' = height + 1]_vars

C10_Witness ==
    /\ last.call.op = "insert"
    /\ last.ret = None
    /\ Len(items) >= 3
    /\ ~panicked

\* C11: whenever an insert returns Some(r), r is the visual row of the new
\* node in the resulting list: r is below the list height and
\* row_to_item_index(r) is the storage index the new node was stored at.
C11_ReturnedRowIsNewNode ==
    [][last'.call.op = "insert" /\ is_some(last'.ret)
         => /\ unwrap(last'.ret) < height'
            /\ row_to_item_index(items', unwrap(last'.ret))
                 = StoredAt(last'.call.placement, last'.call.index)]_vars

\* insert_item(LastChild, p, ..) on the list L followed by
\* set_collapsed(p, false), against set_collapsed(p, false) alone: the
\* insert returns None, the new node ends up visible, the list height and
\* the heights of p and of its ancestors are one greater than without it,
\* and the new node lies on the last row of p's subtree
AppearsOnExpand(L, p) ==
    LET a == insert_item(L, "LastChild", p, Payload)
        b == set_collapsed(a, p, FALSE)
        c == set_collapsed(L, p, FALSE)
    IN /\ a.ok /\ b.ok /\ c.ok
       /\ a.ret = None
       /\ Visible(b.items, a.item_index)
       /\ b.height = c.height + 1
       /\ \A j \in Ancestors(L.items, p) \cup {p} :
             At(b.items, j).height = At(c.items, j).height + 1
       /\ item_index_to_row(b.items, a.item_index).ok
       /\ item_index_to_row(b.items, a.item_index).row
            = item_index_to_row(b.items, p).row + At(b.items, p).height - 1

\* C12: a node inserted as LastChild under a visible collapsed node p is
\* returned as None; once p is expanded it is visible, it is counted in the
\* list height and in the heights of p and its ancestors, and it occupies
\* the last row of p's subtree.
C12_HiddenInsertAppearsOnExpand ==
    ~panicked =>
        \A p \in NodeIndices :
            At(items, p).is_collapsed /\ Visible(items, p) => AppearsOnExpand(List, p)

\* the index insert works with: the passed index clamped to the last one
Clamped(index) == Min(index, Max(Len(items) - 1, 0))

\* where the former node k lies once a node has been stored at index n
Shifted(k, n) == IF k < n THEN k ELSE k + 1

\* The step stored one node at index n and kept every former node, in the
\* former order, with its value; the nodes of raised went one level down,
\* the nodes of gainers gained one descendant, nothing else changed in the
\* levels and the children counts.
StoredKeepingOthers(n, gainers, raised) ==
    /\ ~panicked'
    /\ Len(items') = Len(items) + 1
    /\ n <= Len(items)
    /\ \A k \in NodeIndices :
          LET old == At(items, k)
              new == At(items', Shifted(k, n))
          IN /\ new.value = old.value
             /\ new.level = old.level + (IF k \in raised THEN 1 ELSE 0)
             /\ new.children = old.children + (IF k \in gainers THEN 1 ELSE 0)

\* C13: on a non-empty list Before and After store the new node as a
\* sibling of the node at index at, at its level: Before at index at, After
\* past the whole descendant range of at, at at + 1 + children(at); every
\* other node keeps its place in the order, its level and its value, and
\* exactly the ancestors of at gain one descendant.
C13_SiblingPlacement ==
    [][(/\ last'.call.op = "insert"
        /\ last'.call.placement \in {"Before", "After"}
        /\ Len(items) > 0)
         => LET at == Clamped(last'.call.index)
                n == IF last'.call.placement = "Before" THEN at
                     ELSE at + 1 + At(items, at).children
            IN /\ StoredKeepingOthers(n, Ancestors(items, at), {})
               /\ At(items', n).level = At(items, at).level
               /\ last'.call.placement = "After"
                     => n = at + 1 + Cardinality(Descendants(items, at))]_vars

\* a node was stored After a collapsed node with a hidden child, past it
C13_Witness ==
    /\ last.call.op = "insert"
    /\ last.call.placement = "After"
    /\ ~panicked
    /\ last.call.index + 2 < Len(items)
    /\ At(items, last.call.index).is_collapsed
    /\ At(items, last.call.index).children >= 1
    /\ At(items, last.call.index + 2).level = At(items, last.call.index).level
    /\ At(items, last.call.index + 2).value = calls - 1

\* C14: on a non-empty list FirstChild and LastChild store the new node as a
\* child of the node at index at, one level below it: FirstChild at at + 1,
\* LastChild past the whole descendant range of at, at at + 1 + children(at);
\* at and each of its ancestors gain exactly one descendant, and every other
\* node keeps its place in the order, its level, its value and its count.
C14_ChildPlacement ==
    [][(/\ last'.call.op = "insert"
        /\ last'.call.placement \in {"FirstChild", "LastChild"}
        /\ Len(items) > 0)
         => LET at == Clamped(last'.call.index)
                n == IF last'.call.placement = "FirstChild" THEN at + 1
                     ELSE at + 1 + At(items, at).children
            IN /\ StoredKeepingOthers(n, Ancestors(items, at) \cup {at}, {})
               /\ At(items', n).level = At(items, at).level + 1
               /\ last'.call.placement = "LastChild"
                     => n = at + 1 + Cardinality(Descendants(items, at))]_vars

\* a node was stored as LastChild of a node that has an ancestor and had a
\* child before
C14_Witness ==
    /\ last.call.op = "insert"
    /\ last.call.placement = "LastChild"
    /\ ~panicked
    /\ last.call.index >= 1
    /\ last.call.index < Len(items)
    /\ At(items, last.call.index).level >= 1
    /\ At(items, last.call.index).children >= 2
    /\ At(items, last.call.index + At(items, last.call.index).children).value = calls - 1

\* C15: on a non-empty list Placement::Parent stores the new node at index
\* at with the former level of at; at and its descendants, and no other
\* node, go one level down; the new node has 1 + children(at) children and
\* each former ancestor of at gains exactly one descendant.
C15_ParentPlacement ==
    [][(/\ last'.call.op = "insert"
        /\ last'.call.placement = "Parent"
        /\ Len(items) > 0)
         => LET at == Clamped(last'.call.index)
            IN /\ StoredKeepingOthers(at, Ancestors(items, at),
                                      {at} \cup Descendants(items, at))
               /\ At(items', at).level = At(items, at).level
               /\ At(items', at).children = 1 + At(items, at).children]_vars

\* a parent was put over a node that has an ancestor and a following
\* sibling: the sibling is not below the new node
C15_Witness ==
    /\ last.call.op = "insert"
    /\ last.call.placement = "Parent"
    /\ ~panicked
    /\ last.call.index >= 1
    /\ last.call.index + 2 < Len(items)
    /\ At(items, last.call.index).value = calls - 1
    /\ At(items, last.call.index).level >= 1
    /\ At(items, last.call.index).children = 1
    /\ At(items, last.call.index + 2).level = At(items, last.call.index).level

\* the visible rows the subtree of n occupies: its own row and, unless n is
\* collapsed, one for every descendant that no node of the subtree hides
SubtreeRows(its, n) ==
    IF At(its, n).is_collapsed THEN 1
    ELSE 1 + Cardinality({k \in Descendants(its, n) :
                             \A j \in Ancestors(its, k) :
                                 j >= n => ~At(its, j).is_collapsed})

\* C16: immediately after any insert the height of the new node is the
\* number of visible rows its subtree occupies: 1 for a node stored without
\* children, and 1 + height(at) for Placement::Parent over a node at, also
\* when at is collapsed or has collapsed nodes below it.
C16_NewNodeHeight ==
    [][last'.call.op = "insert" /\ ~panicked'
         => LET n == StoredAt(last'.call.placement, last'.call.index)
            IN /\ At(items', n).height = SubtreeRows(items', n)
               /\ At(items', n).children = 0 => At(items', n).height = 1
               /\ (last'.call.placement = "Parent" /\ Len(items) > 0)
                     => At(items', n).height = 1 + At(items, n).height]_vars

\* the step left the list, and returned the value, of the completed call r
StepIs(r) ==
    [items |-> items', height |-> height', ok |-> TRUE, ret |-> last'.ret]
        = [items |-> r.items, height |-> r.height, ok |-> r.ok, ret |-> r.ret]

\* C17: on a non-empty list an insert whose index is len or more leaves
\* exactly the list, and returns exactly the value, of the same insert at
\* the last storage index len - 1; it does not fail.
C17_IndexClampedToLast ==
    [][(/\ last'.call.op = "insert"
        /\ Len(items) > 0
        /\ last'.call.index >= Len(items))
         => /\ ~panicked'
            /\ \A i \in (Len(items) - 1)..(Len(items) + MaxBeyond) :
                  StepIs(insert(List, last'.call.placement, i, Payload, last'.call.flag))]_vars

\* an insert past the end of a list of two or more nodes has returned
C17_Witness ==
    /\ last.call.op = "insert"
    /\ last.call.index >= Len(items) - 1
    /\ Len(items) >= 3
    /\ ~panicked

\* C18: on an empty list an insert with any placement and any index stores
\* a single node at index 0 with level 0 and no children, returns Some(0)
\* and leaves len = 1 and height = 1; it does not abort.
C18_InsertIntoEmpty ==
    [][(last'.call.op = "insert" /\ Len(items) = 0)
         => /\ ~panicked'
            /\ Len(items') = 1
            /\ At(items', 0).level = 0
            /\ At(items', 0).children = 0
            /\ last'.ret = Some(0)
            /\ height' = 1
            /\ \A i \in 0..MaxBeyond :
                  StepIs(insert(List, last'.call.placement, i, Payload, last'.call.flag))]_vars

\* the list after the step
ListAfter == [items |-> items', height |-> height']

\* set_collapsed(n, false) on the list after the step completes and only
\* marks n expanded: the list height and the height and cached height of
\* every other node stay as they are, and n keeps its height
ExpandingChangesNoHeight(n) ==
    set_collapsed(ListAfter, n, FALSE)
        = [items |-> Put(items', n, [At(items', n) EXCEPT !.is_collapsed = FALSE,
                                                          !.collapsed_height = None]),
           height |-> height', ok |-> TRUE]

\* C19: a node inserted with insert_container_item that receives no children
\* (any placement but Parent over an existing node) starts collapsed with
\* height 1 and collapsed_height Some(1), and expanding it changes no height;
\* a node inserted with insert_item, and a container put as Parent over an
\* existing node, start expanded with collapsed_height None.
C19_InitialCollapse ==
    [][last'.call.op = "insert" /\ ~panicked'
         => LET n == StoredAt(last'.call.placement, last'.call.index)
                new == At(items', n)
            IN IF last'.call.flag /\ ~(last'.call.placement = "Parent" /\ Len(items) > 0)
               THEN /\ new.children = 0
                    /\ new.is_collapsed
                    /\ new.height = 1
                    /\ new.collapsed_height = Some(1)
                    /\ ExpandingChangesNoHeight(n)
               ELSE /\ ~new.is_collapsed
                    /\ new.collapsed_height = None]_vars

\* an empty container was stored as first child of a node that has an
\* ancestor, and starts collapsed
C19_Witness ==
    /\ last.call.op = "insert"
    /\ last.call.flag
    /\ last.call.placement = "FirstChild"
    /\ ~panicked
    /\ last.call.index >= 1
    /\ last.call.index + 1 < Len(items)
    /\ At(items, last.call.index).level >= 1
    /\ At(items, last.call.index + 1).is_collapsed
    /\ At(items, last.call.index + 1).collapsed_height = Some(1)

\* the stored nodes form one chain: node i lies at level i
IsChain(its) == \A i \in 0..(Len(its) - 1) : At(its, i).level = i

\* C20: as long as no node has been collapsed (only insert_item and the
\* three removals are called) every node has height = children + 1, the
\* list height is the number of stored nodes, and every insert returns
\* Some(storage index of the new node); in a chain of n nodes node i has
\* n - 1 - i children and height n - i.
C20_NoCollapseHeights ==
    [][/\ ~panicked'
       /\ height' = Len(items')
       /\ \A i \in 0..(Len(items') - 1) :
             /\ ~At(items', i).is_collapsed
             /\ At(items', i).height = At(items', i).children + 1
       /\ last'.call.op = "insert"
             => last'.ret = Some(StoredAt(last'.call.placement, last'.call.index))
       /\ IsChain(items')
             => \A i \in 0..(Len(items') - 1) :
                   /\ At(items', i).children = Len(items') - 1 - i
                   /\ At(items', i).height = Len(items') - i]_vars

\* a chain of four nodes was built, its last node by a LastChild insertion
C20_Witness ==
    /\ last.call.op = "insert"
    /\ last.call.placement = "LastChild"
    /\ last.ret = Some(3)
    /\ Len(items) = 4
    /\ IsChain(items)
    /\ [k \in 1..4 |-> items[k].children] = <<3, 2, 1, 0>>
    /\ [k \in 1..4 |-> items[k].height] = <<4, 3, 2, 1>>
    /\ height = 4
    /\ ~panicked

\* where the former node k lies once the n nodes from index i are gone
Unshifted(k, i, n) == IF k < i THEN k ELSE k - n

\* The step took the n nodes from index i out of the list and kept every
\* other node, in the former order, with its value; the nodes of lowered
\* went one level up, the nodes of losers lost d descendants, nothing else
\* changed in the levels and the children counts.
TakenKeepingOthers(i, n, losers, d, lowered) ==
    /\ ~panicked'
    /\ Len(items') = Len(items) - n
    /\ \A k \in NodeIndices \ (i..(i + n - 1)) :
          LET old == At(items, k)
              new == At(items', Unshifted(k, i, n))
          IN /\ new.value = old.value
             /\ new.level = old.level - (IF k \in lowered THEN 1 ELSE 0)
             /\ new.children = old.children - (IF k \in losers THEN d ELSE 0)

\* C21: remove(i) with i < len returns the value stored at i and takes that
\* one node out; the former descendants of i, and no other node, go one
\* level up; each ancestor of i loses exactly one descendant; the remaining
\* nodes keep their order and values.
C21_RemoveExtractsNode ==
    [][(last'.call.op = "remove" /\ last'.call.index < Len(items))
         => /\ last'.ret = Some(At(items, last'.call.index).value)
            /\ TakenKeepingOthers(last'.call.index, 1,
                                  Ancestors(items, last'.call.index), 1,
                                  Descendants(items, last'.call.index))]_vars

\* C22: remove(i) on a visible node lowers the list height by exactly 1 when
\* i was expanded; when i was collapsed its descendants are revealed and the
\* list height becomes the former height - 1 + (collapsed_height(i) - 1).
C22_RemoveHeight ==
    [][(/\ last'.call.op = "remove"
        /\ last'.call.index < Len(items)
        /\ Visible(items, last'.call.index))
         => LET n == At(items, last'.call.index)
            IN /\ ~panicked'
               /\ IF n.is_collapsed
                  THEN /\ is_some(n.collapsed_height)
                       /\ height' = height - 1 + (unwrap(n.collapsed_height) - 1)
                  ELSE height' = height - 1]_vars

\* the values of the n nodes from storage index i, in storage order
ValuesFrom(its, i, n) == [k \in 1..n |-> At(its, i + k - 1).value]

\* C23: remove_children(i) with i < len returns the former descendants of i
\* in storage order, hidden ones included, and takes them out; i stays with
\* no children, height 1 and its former collapsed flag; each ancestor of i
\* loses as many descendants as were removed; for a visible i the list
\* height drops by the number of removed nodes that were visible.
C23_RemoveChildren ==
    [][(last'.call.op = "remove_children" /\ last'.call.index < Len(items))
         => LET i == last'.call.index
                n == Cardinality(Descendants(items, i))
            IN /\ last'.ret = Some(ValuesFrom(items, i + 1, n))
               /\ TakenKeepingOthers(i + 1, n, Ancestors(items, i) \cup {i}, n, {})
               /\ At(items', i).children = 0
               /\ At(items', i).height = 1
               /\ At(items', i).is_collapsed = At(items, i).is_collapsed
               /\ Visible(items, i)
                     => height' = height - Cardinality({k \in Descendants(items, i) :
                                                           Visible(items, k)})]_vars

\* C24: remove_with_children(i) with i < len returns the value of i followed
\* by its descendants in storage order, hidden ones included, and takes
\* these children(i) + 1 nodes out; each ancestor of i loses children(i) + 1
\* descendants; for a visible i the list height and the height of each
\* ancestor drop by the rows the subtree of i occupied (1 if i was collapsed).
C24_RemoveWithChildren ==
    [][(last'.call.op = "remove_with_children" /\ last'.call.index < Len(items))
         => LET i == last'.call.index
                n == At(items, i).children + 1
                rows == SubtreeRows(items, i)
            IN /\ n = Cardinality(Descendants(items, i)) + 1
               /\ last'.ret = Some(ValuesFrom(items, i, n))
               /\ TakenKeepingOthers(i, n, Ancestors(items, i), n, {})
               /\ Visible(items, i)
                     => /\ height' = height - rows
                        /\ \A j \in Ancestors(items, i) :
                              At(items', j).height = At(items, j).height - rows]_vars

\* the call op(index, flag) applied to the list L, as the actions apply it
Called(L, op, index, flag) ==
    CASE op = "remove" -> remove(L, index)
      [] op = "remove_children" -> remove_children(L, index)
      [] op = "remove_with_children" -> remove_with_children(L, index)
      [] op = "set_collapsed" ->
            LET r == set_collapsed(L, index, flag)
            IN [items |-> r.items, height |-> r.height, ok |-> r.ok, ret |-> None]

\* C25: remove, remove_children and remove_with_children with index >= len
\* return None and set_collapsed with index >= len returns normally, each
\* leaving the whole list state unchanged; get returns None for the index.
C25_OutOfRangeIsNoOp ==
    [][(/\ last'.call.op \in {"remove", "remove_children", "remove_with_children",
                              "set_collapsed"}
        /\ last'.call.index >= Len(items))
         => /\ ~panicked'
            /\ items' = items
            /\ height' = height
            /\ last'.ret = None
            /\ \A i \in Len(items)..(Len(items) + MaxBeyond) :
                  /\ get(items', i) = None
                  /\ Called(List, last'.call.op, i, last'.call.flag)
                       = [items |-> items, height |-> height, ok |-> TRUE, ret |-> None]]_vars

\* a removal past the end of a list with a collapsed node returned None
C25_Witness ==
    /\ last.call.op = "remove_with_children"
    /\ last.call.index >= Len(items)
    /\ last.ret = None
    /\ Len(items) >= 2
    /\ \E i \in NodeIndices : At(items, i).is_collapsed
    /\ ~panicked

\* C26: in every reachable list row_to_item_index(r) is len, an index for
\* which get returns None, for every row r >= height.
C26_RowPastHeightIsLen ==
    ~panicked =>
        \A r \in height..(height + MaxBeyond) :
            /\ row_to_item_index(items, r) = Len(items)
            /\ get(items, row_to_item_index(items, r)) = None

\* C27: set_collapsed(i, c) on a node whose collapsed flag already is c
\* changes nothing in the list; so after any set_collapsed(i, c) the same
\* call once more leaves exactly the state the first one reached.
C27_SetCollapsedIdempotent ==
    [][(last'.call.op = "set_collapsed" /\ last'.call.index < Len(items))
         => LET i == last'.call.index
                c == last'.call.flag
            IN /\ At(items, i).is_collapsed = c
                     => ~panicked' /\ items' = items /\ height' = height
               /\ ~panicked'
                     => /\ At(items', i).is_collapsed = c
                        /\ set_collapsed(ListAfter, i, c)
                             = [items |-> items', height |-> height', ok |-> TRUE]]_vars

\* set_collapsed(0, true) returned on a root that hides a child
C27_Witness ==
    /\ last.call.op = "set_collapsed"
    /\ last.call.flag
    /\ last.call.index = 0
    /\ Len(items) >= 2
    /\ At(items, 0).is_collapsed
    /\ At(items, 0).children >= 1
    /\ At(items, 0).collapsed_height = Some(1 + At(items, 0).children)
    /\ ~panicked

ViewRemovals == {"view_remove_item", "view_remove_children", "view_extract_item"}

\* C28: TreeView::remove_item, remove_children and extract_item on any row
\* complete with focus = min(previous focus, last visible row): the focus is
\* below the height while the tree is non-empty and 0 when the tree is left
\* empty.
C28_FocusClampedOnRemoval ==
    [][last'.call.op \in ViewRemovals
         => /\ ~panicked'
            /\ IF Len(items') = 0 THEN focus' = 0
               ELSE focus' = Min(focus, height' - 1) /\ focus' < height']_vars

\* C29: TreeView::remove_item, remove_children and extract_item with a row
\* that does not exist (row >= height), also on an empty view, return None
\* and leave the tree contents unchanged, and borrow_item returns None for
\* such a row.
C29_MissingRowIsNoOp ==
    [][(last'.call.op \in ViewRemovals /\ last'.call.index >= height)
         => /\ ~panicked'
            /\ last'.ret = None
            /\ items' = items
            /\ height' = height
            /\ \A r \in height..(height + MaxBeyond) : borrow_item(items, r) = None]_vars

\* the stored values, in storage order, and as a set
Values(its) == [k \in 1..Len(its) |-> its[k].value]
ValueSet(seq) == {seq[k] : k \in 1..Len(seq)}
NoDuplicates(seq) == Cardinality(ValueSet(seq)) = Len(seq)

\* the values of seq that also occur in other, in the order of seq
Shared(seq, other) == SelectSeq(seq, LAMBDA v : v \in ValueSet(other))

\* the values the step handed back to the caller
HandedBack ==
    CASE last'.call.op = "remove" /\ is_some(last'.ret) -> last'.ret
      [] last'.call.op \in {"remove_children", "remove_with_children", "take_items"}
           /\ is_some(last'.ret) -> unwrap(last'.ret)
      [] OTHER -> <<>>

CollapsedAncestors(its, i) == {j \in Ancestors(its, i) : At(its, j).is_collapsed}
NearestCollapsedAncestor(its, i) ==
    CHOOSE j \in CollapsedAncestors(its, i) :
        \A k \in CollapsedAncestors(its, i) : k <= j

\* the set_collapsed call of the step changes the flag of an existing node
FlagChanges ==
    /\ last'.call.op = "set_collapsed"
    /\ last'.call.index < Len(items)
    /\ At(items, last'.call.index).is_collapsed # last'.call.flag

\* C31: a set_collapsed that changes the flag of a node with two or more
\* collapsed ancestors completes, leaves the list height unchanged, leaves
\* the height of every ancestor unchanged, and changes the collapsed_height
\* of no ancestor other than the nearest collapsed one.
C31_OnlyNearestCollapsedAncestor ==
    [][(FlagChanges
            /\ Cardinality(CollapsedAncestors(items, last'.call.index)) >= 2)
         => LET i == last'.call.index
                near == NearestCollapsedAncestor(items, i)
            IN /\ ~panicked'
               /\ height' = height
               /\ \A a \in Ancestors(items, i) :
                     /\ At(items', a).height = At(items, a).height
                     /\ a # near => At(items', a).collapsed_height
                                        = At(items, a).collapsed_height]_vars

\* the insert of the step stored its node under two or more collapsed
\* ancestors
InsertedUnderCollapsed ==
    /\ last'.call.op = "insert"
    /\ ~panicked'
    /\ Cardinality(CollapsedAncestors(items',
           StoredAt(last'.call.placement, last'.call.index))) >= 2

\* the nearest collapsed ancestor of the new node stored at n has its
\* cached height raised by 1 and no ancestor at or above it changes height
NearestCachedHeightRaised(n) ==
    LET near == NearestCollapsedAncestor(items', n)
    IN /\ At(items', near).collapsed_height
            = Some(unwrap(At(items, near).collapsed_height) + 1)
       /\ \A a \in Ancestors(items', n) :
             a <= near => At(items', a).height = At(items, a).height

\* C32 as stated: under two or more collapsed ancestors the nearest one's
\* cached height is raised by 1, no height at or above it changes, and every
\* further collapsed ancestor's cached height is raised by 1 as well.
C32_EveryCollapsedAncestorRaised ==
    [][InsertedUnderCollapsed
         => LET n == StoredAt(last'.call.placement, last'.call.index)
            IN /\ NearestCachedHeightRaised(n)
               /\ \A a \in CollapsedAncestors(items', n) :
                     a # NearestCollapsedAncestor(items', n)
                        => At(items', a).collapsed_height
                             = Some(unwrap(At(items, a).collapsed_height) + 1)]_vars

\* C32: an insert whose new node has two or more collapsed ancestors raises
\* the nearest collapsed ancestor's cached height by 1, changes no height of
\* an ancestor at or above it, raises the height of every (expanded)
\* ancestor below it by 1, leaves the cached height of every further
\* collapsed ancestor as it was, and leaves the list height unchanged.
C32_OnlyNearestCachedHeightRaised ==
    [][InsertedUnderCollapsed
         => LET n == StoredAt(last'.call.placement, last'.call.index)
                near == NearestCollapsedAncestor(items', n)
            IN /\ NearestCachedHeightRaised(n)
               /\ height' = height
               /\ \A a \in Ancestors(items', n) :
                     /\ a > near => At(items', a).height = At(items, a).height + 1
                     /\ a # near => At(items', a).collapsed_height
                                        = At(items, a).collapsed_height]_vars

\* a node was stored below an expanded node that lies under two collapsed
\* ancestors
C32_Witness ==
    /\ last.call.op = "insert"
    /\ ~panicked
    /\ last.call.placement = "FirstChild"
    /\ last.call.index = 2
    /\ Len(items) = 4
    /\ Ancestors(items, 3) = {0, 1, 2}
    /\ CollapsedAncestors(items, 3) = {0, 1}
    /\ At(items, 2).height = 2

\* the descendants of node i that occupy a row while i is expanded (and
\* visible): those with no collapsed node between i and themselves
RowsBelow(its, i) ==
    {k \in Descendants(its, i) :
        \A j \in Ancestors(its, k) : j > i => ~At(its, j).is_collapsed}

\* set_collapsed(a, false) for every collapsed ancestor a of node i of the
\* list L, outermost first
RECURSIVE ExpandAncestors(_, _)
ExpandAncestors(L, i) ==
    IF ~L.ok \/ CollapsedAncestors(L.items, i) = {} THEN L
    ELSE LET a == CHOOSE j \in CollapsedAncestors(L.items, i) :
                      \A k \in CollapsedAncestors(L.items, i) : j <= k
         IN ExpandAncestors(set_collapsed(L, a, FALSE), i)

\* C33: a set_collapsed(i, c) that changes the flag of i completes; with no
\* collapsed ancestor of i the list height changes by exactly the number of
\* descendants of i that occupy a row while i is expanded; with a collapsed
\* ancestor the list height and the height of every expanded ancestor stay
\* unchanged, and once the collapsed ancestors are expanded i is visible
\* with the flag c and the list height is the number of visible nodes.
C33_HeightChangesOnlyWhenVisible ==
    [][FlagChanges
         => LET i == last'.call.index
                c == last'.call.flag
                rows == Cardinality(RowsBelow(items, i))
            IN /\ ~panicked'
               /\ IF CollapsedAncestors(items, i) = {}
                  THEN height' = IF c THEN height - rows ELSE height + rows
                  ELSE /\ height' = height
                       /\ \A a \in Ancestors(items, i) :
                             ~At(items, a).is_collapsed
                                => At(items', a).height = At(items, a).height
                       /\ LET e == ExpandAncestors(
                                     [items |-> items', height |-> height', ok |-> TRUE], i)
                          IN /\ e.ok
                             /\ Visible(e.items, i)
                             /\ At(e.items, i).is_collapsed = c
                             /\ e.height = Cardinality(VisibleIndices(e.items))]_vars

\* the three removing operations of the list
Removing == {"remove", "remove_children", "remove_with_children"}

\* C34: remove, remove_children and remove_with_children on an existing
\* node that has a collapsed ancestor complete, leave the list height
\* unchanged, leave every collapsed ancestor with height 1, lower the nearest
\* collapsed ancestor's cached height by the number of rows lost below it,
\* and expanding the collapsed ancestors afterwards gives a list height
\* equal to the number of visible nodes.
C34_HiddenRemovalKeepsHeight ==
    [][(/\ last'.call.op \in Removing
        /\ last'.call.index < Len(items)
        /\ CollapsedAncestors(items, last'.call.index) # {})
         => LET i == last'.call.index
                near == NearestCollapsedAncestor(items, i)
                lost == Cardinality(RowsBelow(items, near))
                          - Cardinality(RowsBelow(items', near))
                e == set_collapsed(ExpandAncestors(
                         [items |-> items', height |-> height', ok |-> TRUE], near),
                         near, FALSE)
            IN /\ ~panicked'
               /\ height' = height
               /\ \A a \in CollapsedAncestors(items, i) : At(items', a).height = 1
               /\ At(items', near).collapsed_height
                    = Some(unwrap(At(items, near).collapsed_height) - lost)
               /\ e.ok
               /\ e.height = Cardinality(VisibleIndices(e.items))]_vars

\* C35: remove_children(i) on a collapsed node i that has descendants
\* completes and leaves i collapsed with height 1 and the cached height
\* Some(1); a set_collapsed(i, false) that follows leaves i with height 1
\* and changes neither the list height nor the height of an ancestor of i.
C35_EmptiedNodeStaysCollapsed ==
    [][(/\ last'.call.op = "remove_children"
        /\ last'.call.index < Len(items)
        /\ At(items, last'.call.index).is_collapsed
        /\ At(items, last'.call.index).children > 0)
         => LET i == last'.call.index
                e == set_collapsed(ListAfter, i, FALSE)
            IN /\ ~panicked'
               /\ At(items', i).is_collapsed
               /\ At(items', i).height = 1
               /\ At(items', i).collapsed_height = Some(1)
               /\ e.ok
               /\ At(e.items, i).height = 1
               /\ e.height = height'
               /\ \A a \in Ancestors(items', i) :
                     At(e.items, a).height = At(items', a).height]_vars

\* C36: no operation of the list fails: no call ends in a panic (an unsigned
\* subtraction below zero, an unwrap of None, an access out of bounds), and
\* item_index_to_row completes for every storage index of the list.
C36_NoOperationFails ==
    /\ ~panicked
    /\ \A i \in NodeIndices : item_index_to_row(items, i).ok

\* C37: the collapsed_height of every node is Some exactly when the node is
\* collapsed, and no call has failed on an unwrap of it.
C37_CachedHeightIffCollapsed ==
    \A i \in NodeIndices :
        is_some(At(items, i).collapsed_height) <=> At(items, i).is_collapsed

\* a collapsed node that was expanded and collapsed again lies under a
\* collapsed ancestor, next to an expanded node
C37_Witness ==
    /\ ~panicked
    /\ last.call.op = "set_collapsed"
    /\ \E i, j, k \in NodeIndices :
          /\ i \in Ancestors(items, j)
          /\ At(items, i).is_collapsed /\ At(items, j).is_collapsed
          /\ ~At(items, k).is_collapsed

\* C38: every node that has a descendant is a container.
C38_ParentsAreContainers ==
    \A i \in NodeIndices : Descendants(items, i) # {} => At(items, i).is_container

\* C39: a completed set_collapsed step keeps the number of nodes and the
\* value, level, children and is_container of every node; it changes the
\* collapsed flag of no node other than i, and the height and cached height
\* of no node other than i and the ancestors of i.
C39_SetCollapsedFrame ==
    [][(last'.call.op = "set_collapsed" /\ ~panicked')
         => /\ Len(items') = Len(items)
            /\ \A k \in NodeIndices :
                  /\ At(items', k).value = At(items, k).value
                  /\ At(items', k).level = At(items, k).level
                  /\ At(items', k).children = At(items, k).children
                  /\ At(items', k).is_container = At(items, k).is_container
                  /\ k # last'.call.index
                        => At(items', k).is_collapsed = At(items, k).is_collapsed
                  /\ k \notin Ancestors(items, last'.call.index) \cup {last'.call.index}
                        => /\ At(items', k).height = At(items, k).height
                           /\ At(items', k).collapsed_height
                                = At(items, k).collapsed_height]_vars

\* a node with an ancestor and a child was collapsed, and the heights of
\* the node and of its ancestor changed
C39_Witness ==
    /\ last.call = Call("set_collapsed", "", 1, TRUE)
    /\ ~panicked
    /\ Len(items) = 3
    /\ Ancestors(items, 1) = {0}
    /\ Descendants(items, 1) = {2}
    /\ At(items, 1).collapsed_height = Some(2)
    /\ At(items, 0).height = 2
    /\ At(items, 0).value # At(items, 1).value

\* C40: in a view driven by key events and by collapsing and expanding
\* existing rows no call fails and the focus stays below max(height, 1): it
\* designates an existing row whenever the view has one.
C40_FocusOnExistingRow ==
    /\ ~panicked
    /\ focus < Max(height, 1)

====
